---- MODULE Spec2Model ----
(***************************************************************************)
(* Model of zalign.py: class Molecule (load, verify_input, align, rmsd,    *)
(* print_structure) and the command main().                                *)
(*                                                                         *)
(* Coordinates are floats in the source.  Here a coordinate is an integer  *)
(* number of 1/Scale angstrom, Scale being a multiple of every possible    *)
(* atom count, so that the centroid mean (sum / n) is exact.               *)
(* np.linalg.svd is not computed: the rotation it leads to is drawn from   *)
(* Rotations, a set of orthogonal matrices (proper and improper, the       *)
(* source makes no reflection correction).                                 *)
(***************************************************************************)
EXTENDS Integers, Sequences, FiniteSets, TLC

\* ---------------------------------------------------------------- bounds
MaxAtoms == 3
MaxFilter == 2
MaxFileAtoms == 1

\* ------------------------------------------------------- program constants
NumRuns == 10

RECURSIVE Factorial(_)
Factorial(n) == IF n <= 1 THEN 1 ELSE n * Factorial(n - 1)

Scale == Factorial(MaxAtoms)

\* Python's None where a list is expected (the absent -f argument), and the
\* nan that np.mean gives for an empty matrix, where a vector is expected
None == <<"None">>
NaN == <<"nan">>

Elements == {"C", "H", "O"}
FilterElements == {"C", "O"}
Extensions == {"pdb", "gro", "xyz", "txt"}

SeqsUpTo(S, n) == UNION {[1..k -> S] : k \in 0..n}

\* the -f argument: absent (None) or a list of element names
Filters == {None} \cup SeqsUpTo(FilterElements, MaxFilter)

\* where the i-th atom line of a file places its atom, in file units: the
\* files of one format lie on a line, those of the others on a curve
Position(ext, i) == IF ext = "pdb" THEN <<i, 0, 0>> ELSE <<0, i, i * i>>

Rotations ==
  { << <<1, 0, 0>>, <<0, 1, 0>>, <<0, 0, 1>> >>,
    << <<0, 1, 0>>, <<-1, 0, 0>>, <<0, 0, 1>> >>,
    << <<1, 0, 0>>, <<0, 1, 0>>, <<0, 0, -1>> >> }

\* ------------------------------------------------------------------ files
\* A structure file: its name's extension, its atom lines and, for PDB, its
\* CONECT lines.
FileLine(i, e, at) ==
  [index |-> i, elem |-> e, res_name |-> "MOL", res_index |-> 1,
   chain_name |-> "B", x |-> at[1] * Scale, y |-> at[2] * Scale,
   z |-> at[3] * Scale, mass |-> 12, charge |-> 1]

File(ext, es) ==
  [ext |-> ext,
   lines |-> [i \in 1..Len(es) |-> FileLine(i, es[i], Position(ext, i))],
   conects |-> IF Len(es) >= 2 THEN <<[index |-> 1, bonded |-> <<2>>]>>
               ELSE <<>>]

FilesUpTo(n) ==
  {File(ext, es) : ext \in Extensions, es \in SeqsUpTo(Elements, n)}

\* ------------------------------------------------------------------ Atom
Atom(index, elem, res_name, res_index, chain_name, x, y, z, mass, charge) ==
  [index |-> index, elem |-> elem, res_name |-> res_name,
   res_index |-> res_index, chain_name |-> chain_name,
   x |-> x, y |-> y, z |-> z, mass |-> mass, charge |-> charge]

\* ------------------------------------------------------------------ LOAD
read_pdb(file) ==
  [atoms |-> [i \in 1..Len(file.lines) |->
                LET l == file.lines[i]
                IN  Atom(l.index, l.elem, l.res_name, l.res_index,
                         l.chain_name, l.x, l.y, l.z, l.mass, l.charge)],
   conects |-> file.conects]

read_gro(file) ==
  [atoms |-> [i \in 1..Len(file.lines) |->
                LET l == file.lines[i]
                IN  Atom(l.index, l.elem, l.res_name, l.res_index, "A",
                         l.x * 10, l.y * 10, l.z * 10, -1, -1)],
   conects |-> <<>>]

read_xyz(file) ==
  [atoms |-> [i \in 1..Len(file.lines) |->
                LET l == file.lines[i]
                IN  Atom(i, l.elem, "NaN", -1, "A", l.x, l.y, l.z, 0, 0)],
   conects |-> <<>>]

\* exit(code) raises SystemExit: the process ends with that status
SystemExit(code) == [kind |-> "SystemExit", code |-> code]
Returned(mol) == [kind |-> "return", value |-> mol]

\* load(filename): the molecule read, or the exit of the else branch
\* (after print("File format unkown"))
load(file) ==
  IF file.ext = "pdb" THEN Returned(read_pdb(file))
  ELSE IF file.ext = "gro" THEN Returned(read_gro(file))
  ELSE IF file.ext = "xyz" THEN Returned(read_xyz(file))
  ELSE SystemExit(0)

\* ----------------------------------------------------------------- ALIGN
\* atom.elem in elem, elem being a list
InList(e, elem) == \E k \in 1..Len(elem) : elem[k] = e

Passes(atom, elem) == elem = None \/ InList(atom.elem, elem)

count(mol, elem) ==
  Cardinality({i \in 1..Len(mol.atoms) : Passes(mol.atoms[i], elem)})

Min(a, b) == IF a <= b THEN a ELSE b

\* compare_order with "or" for "and": a position is compared as soon as one
\* of its two atoms passes the filter
compare_order_either(mol, reference, elem) ==
  \A i \in 1..(IF Len(mol.atoms) <= Len(reference.atoms)
                 THEN Len(mol.atoms) ELSE Len(reference.atoms)) :
     LET a1 == mol.atoms[i]
         a2 == reference.atoms[i]
     IN  (elem = None \/ (InList(a1.elem, elem) \/ InList(a2.elem, elem)))
           => a1.elem = a2.elem

\* zip stops at the shorter atom list
compare_order(mol, reference, elem) ==
  \A i \in 1..Min(Len(mol.atoms), Len(reference.atoms)) :
     LET a1 == mol.atoms[i]
         a2 == reference.atoms[i]
     IN  (elem = None \/ (InList(a1.elem, elem) /\ InList(a2.elem, elem)))
           => a1.elem = a2.elem

Ok == [kind |-> "ok"]
CountMismatch == [kind |-> "CountMismatch"]
OrderMismatch == [kind |-> "OrderMismatch"]
FilterElementNotFound(e, side) ==
  [kind |-> "FilterElementNotFound", element |-> e, side |-> side]

\* check_elements without the assertion on the reference structure
RECURSIVE check_elements_movable_only(_, _, _, _)
check_elements_movable_only(mol, reference, elem, k) ==
  IF k > Len(elem) THEN [kind |-> "ok"]
  ELSE IF ~(count(mol, <<elem[k]>>) > 0)
         THEN [kind |-> "FilterElementNotFound", element |-> elem[k],
               side |-> "Movable"]
  ELSE check_elements_movable_only(mol, reference, elem, k + 1)

\* the loop of lines 120-124, from filter position k on
RECURSIVE check_elements(_, _, _, _)
check_elements(mol, reference, elem, k) ==
  IF k > Len(elem) THEN Ok
  ELSE IF ~(count(mol, <<elem[k]>>) > 0)
         THEN FilterElementNotFound(elem[k], "Movable")
  ELSE IF ~(count(reference, <<elem[k]>>) > 0)
         THEN FilterElementNotFound(elem[k], "Reference")
  ELSE check_elements(mol, reference, elem, k + 1)

\* verify_input with the first two assertions in the other order
verify_input_order_first(mol, reference, elem) ==
  IF ~compare_order(mol, reference, elem) THEN OrderMismatch
  ELSE IF ~(count(mol, elem) = count(reference, elem)) THEN CountMismatch
  ELSE IF elem # None THEN check_elements(mol, reference, elem, 1)
  ELSE Ok

\* verify_input: Ok, or the assertion that fails first
verify_input(mol, reference, elem) ==
  IF ~(count(mol, elem) = count(reference, elem)) THEN CountMismatch
  ELSE IF ~compare_order(mol, reference, elem) THEN OrderMismatch
  ELSE IF elem # None THEN check_elements(mol, reference, elem, 1)
  ELSE Ok

\* SelectSeq keeps the order of the atoms
as_matrix(mol, elem) ==
  LET sel == SelectSeq(mol.atoms, LAMBDA a : Passes(a, elem))
  IN  [k \in 1..Len(sel) |-> <<sel[k].x, sel[k].y, sel[k].z>>]

RECURSIVE SumRows(_, _)
SumRows(m, k) ==
  IF k = 0 THEN <<0, 0, 0>>
  ELSE LET s == SumRows(m, k - 1)
       IN  <<s[1] + m[k][1], s[2] + m[k][2], s[3] + m[k][3]>>

\* np.mean(m, axis=0); of an empty matrix it is nan (0/0)
mean(m) ==
  IF Len(m) = 0 THEN NaN
  ELSE LET s == SumRows(m, Len(m))
       IN  <<s[1] \div Len(m), s[2] \div Len(m), s[3] \div Len(m)>>

VSub(p, q) == <<p[1] - q[1], p[2] - q[2], p[3] - q[3]>>
VAdd(p, q) == <<p[1] + q[1], p[2] + q[2], p[3] + q[3]>>
\* row vector times matrix
VDot(p, r) ==
  [j \in 1..3 |-> p[1] * r[1][j] + p[2] * r[2][j] + p[3] * r[3][j]]

\* np.dot(self.as_matrix() - c_movable, rot) + c_reference
transform(mol, cm, rot, cr) ==
  LET full == as_matrix(mol, None)
  IN  [k \in 1..Len(full) |-> VAdd(VDot(VSub(full[k], cm), rot), cr)]

\* zip stops at the shorter of the atom list and the coordinate rows
apply_coordinates(mol, new_coordinates) ==
  [mol EXCEPT !.atoms =
     [i \in 1..Len(mol.atoms) |->
        IF i <= Len(new_coordinates)
          THEN [mol.atoms[i] EXCEPT !.x = new_coordinates[i][1],
                                    !.y = new_coordinates[i][2],
                                    !.z = new_coordinates[i][3]]
          ELSE mol.atoms[i]]]

RECURSIVE SumSq(_, _, _)
SumSq(m, r, k) ==
  IF k = 0 THEN 0
  ELSE LET d == VSub(r[k], m[k])
       IN  SumSq(m, r, k - 1) + d[1] * d[1] + d[2] * d[2] + d[3] * d[3]

\* rmsd with n = r.size (rows x 3) for n = len(r)
rmsd_size(mol, reference, elem) ==
  LET m == as_matrix(mol, elem)
      r == as_matrix(reference, elem)
      n == Len(r) * 3
  IN  [count |-> n, sumsq |-> SumSq(m, r, Len(r)), over |-> n]

\* rmsd: the count n = len(r) and the value sqrt(sumsq / n), kept as the
\* pair of its numerator and denominator
rmsd(mol, reference, elem) ==
  LET m == as_matrix(mol, elem)
      r == as_matrix(reference, elem)
      n == Len(r)
  IN  [count |-> n, sumsq |-> SumSq(m, r, n), over |-> n]

\* ----------------------------------------------------------------- EXPORT
\* print_structure(filename): the file written (its format and its atom
\* lines, in atom order), or the exit of the else branch
print_structure(mol, ext) ==
  IF ext = "pdb"
    THEN Returned([format |-> "pdb", atoms |-> mol.atoms,
                   conects |-> mol.conects])
  ELSE IF ext = "gro"
    THEN Returned([format |-> "gro", atoms |-> mol.atoms, conects |-> <<>>])
  ELSE IF ext = "xyz"
    THEN Returned([format |-> "xyz", atoms |-> mol.atoms, conects |-> <<>>])
  ELSE SystemExit(0)

\* ------------------------------------------------------------------ state
VARIABLES
  mfile,              \* args.m: the movable structure file
  rfile,              \* args.r: the reference structure file
  oext,               \* args.o: extension of the output file name
  f,                  \* args.f: the element filter, or None
  prediction,         \* main's prediction (self in align)
  reference,          \* main's reference
  pc,                 \* position in main / align
  i,                  \* main's loop variable
  exitStatus,         \* exit status of the process, NotExited while it runs
  error,              \* what ended the run, NoError otherwise
  c_movable,          \* align's locals
  c_reference,
  rot,
  transformed_coords,
  report,             \* what align prints: count and rms
  outfile             \* the output file as last written

vars == <<mfile, rfile, oext, f, prediction, reference, pc, i, exitStatus,
          error, c_movable, c_reference, rot, transformed_coords, report,
          outfile>>

args == <<mfile, rfile, oext, f>>
locals == <<c_movable, c_reference, rot, transformed_coords, report>>

NotExited == -1
NoError == [kind |-> "none"]
Unbound == [kind |-> "unbound"]
LinAlgError == [kind |-> "LinAlgError"]
verbose == TRUE

\* an uncaught exception ends the interpreter with status 1
Raise(e) ==
  /\ pc' = "exit"
  /\ error' = e
  /\ exitStatus' = 1

\* exit(code)
Exit(code, e) ==
  /\ pc' = "exit"
  /\ error' = e
  /\ exitStatus' = code

InitLocals ==
  /\ c_movable = Unbound
  /\ c_reference = Unbound
  /\ rot = Unbound
  /\ transformed_coords = Unbound
  /\ report = Unbound

\* The two Molecule objects are constructed and a caller (main, or a user
\* of the class, who may pass an empty list) is about to call
\* prediction.align(reference, f).
Init ==
  /\ mfile \in {fl \in FilesUpTo(MaxAtoms) : fl.ext = "pdb"}
  /\ rfile \in {fl \in FilesUpTo(MaxAtoms) : fl.ext = "xyz"}
  /\ oext = "pdb"
  /\ f \in Filters
  /\ prediction = load(mfile).value
  /\ reference = load(rfile).value
  /\ pc = "align"
  /\ i = 0
  /\ exitStatus = NotExited
  /\ error = NoError
  /\ InitLocals
  /\ outfile = Unbound

\* The command starts: nothing is loaded yet.
InitMain ==
  /\ mfile \in FilesUpTo(MaxFileAtoms)
  /\ rfile \in FilesUpTo(MaxFileAtoms)
  /\ oext \in Extensions
  /\ f \in Filters \ {<<>>}
  /\ prediction = Unbound
  /\ reference = Unbound
  /\ pc = "load_prediction"
  /\ i = 0
  /\ exitStatus = NotExited
  /\ error = NoError
  /\ InitLocals
  /\ outfile = Unbound

\* ---------------------------------------------------------------- actions
\* prediction = Molecule(args.m)
MainLoadPrediction ==
  /\ pc = "load_prediction"
  /\ i < NumRuns
  /\ LET res == load(mfile)
     IN  IF res.kind = "return"
           THEN /\ prediction' = res.value
                /\ pc' = "load_reference"
                /\ UNCHANGED <<exitStatus, error>>
           ELSE /\ Exit(res.code, [kind |-> "UnsupportedExtension",
                                   at |-> "load"])
                /\ UNCHANGED prediction
  /\ UNCHANGED <<args, reference, i, locals, outfile>>

\* reference = Molecule(args.r)
MainLoadReference ==
  /\ pc = "load_reference"
  /\ LET res == load(rfile)
     IN  IF res.kind = "return"
           THEN /\ reference' = res.value
                /\ pc' = "align"
                /\ UNCHANGED <<exitStatus, error>>
           ELSE /\ Exit(res.code, [kind |-> "UnsupportedExtension",
                                   at |-> "load"])
                /\ UNCHANGED reference
  /\ UNCHANGED <<args, prediction, i, locals, outfile>>

\* align moving the structure to its first atom before it verifies the input
AlignVerifyInputLate ==
  /\ pc = "align"
  /\ LET full == as_matrix(prediction, None)
         res == verify_input(prediction, reference, f)
     IN  /\ prediction' = apply_coordinates(prediction,
                             [k \in 1..Len(full) |-> VSub(full[k], full[1])])
         /\ IF res = Ok
              THEN /\ pc' = "centroid"
                   /\ UNCHANGED <<exitStatus, error>>
              ELSE Raise(res)
  /\ UNCHANGED <<args, reference, i, locals, outfile>>

\* align, step 0: self.verify_input(reference, elem)
AlignVerifyInput ==
  /\ pc = "align"
  /\ LET res == verify_input(prediction, reference, f)
     IN  IF res = Ok
           THEN /\ pc' = "centroid"
                /\ UNCHANGED <<exitStatus, error>>
           ELSE Raise(res)
  /\ UNCHANGED <<args, prediction, reference, i, locals, outfile>>

\* align, steps 1 and 2: the filtered matrices and their centroids
AlignCentroid ==
  /\ pc = "centroid"
  /\ c_movable' = mean(as_matrix(prediction, f))
  /\ c_reference' = mean(as_matrix(reference, f))
  /\ pc' = "svd"
  /\ UNCHANGED <<args, prediction, reference, i, exitStatus, error, rot,
                 transformed_coords, report, outfile>>

\* align, steps 3 and 4: correlation matrix, svd and rotation.  For empty
\* matrices np.dot gives a 0-dimensional array and np.linalg.svd raises.
AlignRotation ==
  /\ pc = "svd"
  /\ IF Len(as_matrix(prediction, f)) = 0
       THEN /\ Raise(LinAlgError)
            /\ UNCHANGED rot
       ELSE /\ rot' \in Rotations
            /\ pc' = "transform"
            /\ UNCHANGED <<exitStatus, error>>
  /\ UNCHANGED <<args, prediction, reference, i, c_movable, c_reference,
                 transformed_coords, report, outfile>>

\* align transforming self.as_matrix(elem) for self.as_matrix()
AlignTransformFiltered ==
  /\ pc = "transform"
  /\ transformed_coords' =
       LET sel == as_matrix(prediction, f)
       IN  [k \in 1..Len(sel) |->
              VAdd(VDot(VSub(sel[k], c_movable), rot), c_reference)]
  /\ pc' = "apply_coordinates"
  /\ UNCHANGED <<args, prediction, reference, i, exitStatus, error,
                 c_movable, c_reference, rot, report, outfile>>

\* align, step 5: rotation and translation of the full structure
AlignTransform ==
  /\ pc = "transform"
  /\ transformed_coords' = transform(prediction, c_movable, rot, c_reference)
  /\ pc' = "apply_coordinates"
  /\ UNCHANGED <<args, prediction, reference, i, exitStatus, error,
                 c_movable, c_reference, rot, report, outfile>>

\* align, step 6: self.apply_coordinates(transformed_coords)
AlignApplyCoordinates ==
  /\ pc = "apply_coordinates"
  /\ prediction' = apply_coordinates(prediction, transformed_coords)
  /\ pc' = "rmsd"
  /\ UNCHANGED <<args, reference, i, exitStatus, error, locals, outfile>>

\* align, step 7: count, rms = self.rmsd(reference, elem) and the print
AlignRmsd ==
  /\ pc = "rmsd"
  /\ report' = IF verbose THEN rmsd(prediction, reference, f) ELSE report
  /\ pc' = "print_structure"
  /\ UNCHANGED <<args, prediction, reference, i, exitStatus, error,
                 c_movable, c_reference, rot, transformed_coords, outfile>>

\* prediction.print_structure(args.o), then the next round of the loop
MainPrintStructure ==
  /\ pc = "print_structure"
  /\ LET res == print_structure(prediction, oext)
     IN  IF res.kind = "return"
           THEN /\ outfile' = res.value
                /\ i' = i + 1
                /\ pc' = "load_prediction"
                /\ UNCHANGED <<exitStatus, error>>
           ELSE /\ Exit(res.code, [kind |-> "UnsupportedExtension",
                                   at |-> "print_structure"])
                /\ UNCHANGED <<outfile, i>>
  /\ UNCHANGED <<args, prediction, reference, locals>>

\* the loop is over: print(total_time/10.0), main returns None and
\* sys.exit(None) ends the process with status 0
MainReturn ==
  /\ pc = "load_prediction"
  /\ i = NumRuns
  /\ Exit(0, NoError)
  /\ UNCHANGED <<args, prediction, reference, i, locals, outfile>>

Align ==
  \/ AlignVerifyInput
  \/ AlignCentroid
  \/ AlignRotation
  \/ AlignTransform
  \/ AlignApplyCoordinates
  \/ AlignRmsd

Next == Align

NextMain ==
  \/ MainLoadPrediction
  \/ MainLoadReference
  \/ Align
  \/ MainPrintStructure
  \/ MainReturn

Spec == Init /\ [][Next]_vars

SpecMain == InitMain /\ [][NextMain]_vars

\* ------------------------------------------------------------ vocabulary
\* positions of the atoms of mol that the filter f selects
Selected(mol) ==
  {p \in DOMAIN mol.atoms :
     f = None \/ mol.atoms[p].elem \in {f[k] : k \in DOMAIN f}}

\* the elements of the selected atoms of mol, in atom order
RECURSIVE SelectedElems(_, _)
SelectedElems(mol, n) ==
  IF n = 0 THEN <<>>
  ELSE IF n \in Selected(mol)
         THEN Append(SelectedElems(mol, n - 1), mol.atoms[n].elem)
         ELSE SelectedElems(mol, n - 1)

Coordinates(mol) ==
  [p \in DOMAIN mol.atoms |->
     <<mol.atoms[p].x, mol.atoms[p].y, mol.atoms[p].z>>]

\* the structures as they were when align was called
Movable0 == load(mfile).value
Reference0 == load(rfile).value

ValidationKinds == {"CountMismatch", "OrderMismatch", "FilterElementNotFound"}

ValidationFailed == pc = "exit" /\ error.kind \in ValidationKinds
ValidationPassed ==
  \/ pc \in {"centroid", "svd", "transform", "apply_coordinates", "rmsd",
             "print_structure"}
  \/ pc = "exit" /\ error.kind = "LinAlgError"

\* a position where both atoms are selected and their elements differ
Disagreement ==
  \E p \in Selected(prediction) \cap Selected(reference) :
     prediction.atoms[p].elem # reference.atoms[p].elem

\* a position where exactly one atom is selected, the elements differing
OneSided ==
  \E p \in DOMAIN prediction.atoms \cap DOMAIN reference.atoms :
     /\ (p \in Selected(prediction)) # (p \in Selected(reference))
     /\ prediction.atoms[p].elem # reference.atoms[p].elem

Occurs(e, mol) == \E p \in DOMAIN mol.atoms : mol.atoms[p].elem = e

\* filter positions whose element is absent from a structure
Missing ==
  {k \in DOMAIN f : ~Occurs(f[k], prediction) \/ ~Occurs(f[k], reference)}

FirstMissing == CHOOSE k \in Missing : \A j \in Missing : k <= j

\* ------------------------------------------------------------------ claims
\* C1: when validation fails inside align (count mismatch, order mismatch
\* or filter element not found), every atom of the movable structure holds
\* the x/y/z it had before the call; no coordinate is written before
\* validation has passed.
C1_NoMutationOnFailedValidation ==
  (pc = "align" \/ ValidationFailed)
     => Coordinates(prediction) = Coordinates(Movable0)

C1_Witness ==
  /\ ValidationFailed
  /\ Len(prediction.atoms) > 0

\* C2: whenever validation succeeds, the filtered movable and reference
\* atoms are equally many and the k-th selected atom of the one has the
\* element of the k-th selected atom of the other.
C2_RowsMatched ==
  ValidationPassed
     => SelectedElems(prediction, Len(prediction.atoms))
          = SelectedElems(reference, Len(reference.atoms))

\* C3: an unrecognized input or output extension and a failed validation
\* each end the run with a non-zero exit status.
C3_FailureExitsNonZero ==
  (pc = "exit" /\ error.kind \in ValidationKinds \cup {"UnsupportedExtension"})
     => exitStatus # 0

\* C4: with zero atoms selected, align reports a failure instead of going on
\* to the centroid mean; no division by the selected-atom count is reached
\* with count 0.
C4_NoMeanOfZeroAtoms ==
  (pc = "svd" \/ (pc = "exit" /\ error.kind = "LinAlgError"))
     => Cardinality(Selected(prediction)) # 0

\* C5: given equal filtered counts, validation fails with OrderMismatch
\* exactly when at some position both atoms pass the filter and their
\* elements differ; a position where only one atom passes never fails it.
C5_PermissiveOrderRule ==
  ((ValidationPassed \/ ValidationFailed)
     /\ Cardinality(Selected(prediction)) = Cardinality(Selected(reference)))
     => ((error.kind = "OrderMismatch") <=> Disagreement)

C5_Witness ==
  /\ ValidationPassed
  /\ OneSided
  /\ f # None

\* C6: a successful align writes row p of the transformed full-structure
\* matrix to atom p, for every atom of the movable structure, and changes
\* nothing else: atom count and order, the non-coordinate fields, the bond
\* list and the reference structure stay as they were.
C6_OnlyCoordinatesOfEveryAtom ==
  pc \in {"rmsd", "print_structure"}
     => /\ Len(prediction.atoms) = Len(Movable0.atoms)
        /\ Len(transformed_coords) = Len(Movable0.atoms)
        /\ \A p \in DOMAIN Movable0.atoms :
              /\ transformed_coords[p]
                   = VAdd(VDot(VSub(Coordinates(Movable0)[p], c_movable),
                               rot), c_reference)
              /\ prediction.atoms[p]
                   = [Movable0.atoms[p] EXCEPT
                        !.x = transformed_coords[p][1],
                        !.y = transformed_coords[p][2],
                        !.z = transformed_coords[p][3]]
        /\ prediction.conects = Movable0.conects
        /\ reference = Reference0

C6_Witness ==
  /\ pc = "rmsd"
  /\ Selected(prediction) # DOMAIN prediction.atoms
  /\ Coordinates(prediction) # Coordinates(Movable0)

\* C7: validation fails with CountMismatch exactly when the number of
\* selected atoms differs between the two structures, whatever else is
\* wrong.
C7_CountMismatchFirst ==
  (ValidationPassed \/ ValidationFailed)
     => ((error.kind = "CountMismatch")
           <=> Cardinality(Selected(prediction))
                 # Cardinality(Selected(reference)))

C7_Witness ==
  /\ ValidationFailed
  /\ error.kind = "CountMismatch"
  /\ Disagreement

\* C8: when validation succeeds with a filter, every named element occurs
\* in both structures; when counts and order pass but a named element is
\* absent, validation fails with FilterElementNotFound for the first such
\* element of the filter, the movable side before the reference side.
C8_FilterElementsOccur ==
  ((ValidationPassed \/ ValidationFailed) /\ f # None)
     => /\ ValidationPassed => Missing = {}
        /\ (/\ Cardinality(Selected(prediction))
                 = Cardinality(Selected(reference))
            /\ ~Disagreement
            /\ Missing # {})
             => error = [kind |-> "FilterElementNotFound",
                         element |-> f[FirstMissing],
                         side |-> IF ~Occurs(f[FirstMissing], prediction)
                                    THEN "Movable" ELSE "Reference"]

C8_Witness ==
  /\ ValidationFailed
  /\ error.kind = "FilterElementNotFound"
  /\ error.side = "Reference"

\* C9: the count that rmsd returns, and align reports, is the number of
\* selected atoms of the movable structure (rows, not rows x 3), which is
\* also the number of selected atoms of the reference.
C9_CountIsSelectedAtoms ==
  pc = "print_structure"
     => /\ report.count = Cardinality(Selected(prediction))
        /\ report.count = Cardinality(Selected(reference))

C9_Witness ==
  /\ pc = "print_structure"
  /\ report.count < Len(prediction.atoms)
  /\ report.count > 1

====
